---- MODULE Spec2Model ----
(***************************************************************************)
(* Model of the movie recommendation queries of neo4j-demo (db/movie.js).  *)
(* The graph store holds Movie, Genre, Director, Actor and User nodes and  *)
(* HAS_GENRE, DIRECTED_BY, ACTED_IN and RATED relationships.  The three    *)
(* recommendation functions run one Cypher query each and map its records  *)
(* to plain objects.  A title t in 1..MaxMovies stands for the t-th title  *)
(* in lexicographic order, so "title ascending" is numeric order.          *)
(* The functions that create, update, relate and delete movies, genres,    *)
(* actors and directors act on the same graph, and the command line        *)
(* program (cli/index.js) calls the strategies on the shared driver of     *)
(* db/index.js.                                                            *)
(***************************************************************************)
EXTENDS Integers, Sequences, FiniteSets, TLC

\* ---------------------------------------------------------------- bounds
MaxMovies == 3
MaxGenres == 2
MaxDirectors == 1
MaxActors == 1
MaxUsers == 2
\* longest list of titles passed to a strategy
MaxTitles == 2
\* largest amount passed to a strategy
MaxAmount == 2
\* largest number of relationships of the stored graph
MaxEdges == 5
\* largest number of nodes of one label that carry the same name
MaxCopies == 2

\* ------------------------------------------------------ program constants
\* r.rating >= 4
MinRating == 4
\* runtime = { min: 0, max: 300 }
DefaultRuntimeMin == 0
DefaultRuntimeMax == 300

Titles == 1..MaxMovies
Genres == 1..MaxGenres
Directors == 1..MaxDirectors
Actors == 1..MaxActors
Users == 1..MaxUsers

\* 0 stands for "no RATED relationship"; 3 is a rating below the threshold,
\* 4 one at the threshold
NoRating == 0
Ratings == {NoRating, MinRating - 1, MinRating}

\* nodes carry their label, so that a relationship has a direction between
\* labelled end points
MovieNode(t) == <<"Movie", t>>
GenreNode(g) == <<"Genre", g>>
DirectorNode(d) == <<"Director", d>>
ActorNode(a) == <<"Actor", a>>

VARIABLES
  movies,      \* title -> properties of the Movie node
  hasGenre,    \* title -> genre names of its HAS_GENRE relationships, in store order
  directedBy,  \* DIRECTED_BY relationships <<start node, end node>>
  actedIn,     \* ACTED_IN relationships <<start node, end node>>
  rated,       \* <<userId, title>> -> rating of the RATED relationship
  call,        \* the latest call: function name and arguments
  ret,         \* the list the latest call returned
  thrown,      \* the error the latest call threw to its caller, or "none"
  queries,     \* the store's answers to the queries the latest call ran, in order
  nodes,       \* labelled key (title or name) -> number of nodes that carry it
  driver,      \* the shared driver of db/index.js: "open" or "closed"
  sessions,    \* number of sessions opened and not closed
  cli          \* the command line program: its position and what the user chose

vars == <<movies, hasGenre, directedBy, actedIn, rated, call, ret, thrown, queries,
          nodes, driver, sessions, cli>>
graph == <<movies, hasGenre, directedBy, actedIn, rated, nodes>>

\* the process around the store: driver, sessions and command line program
process == <<driver, sessions, cli>>

\* ---------------------------------------------------------------- helpers
Range(s) == {s[i] : i \in DOMAIN s}

Min(a, b) == IF a <= b THEN a ELSE b

RECURSIVE Sum(_, _)
Sum(f, S) ==
  IF S = {} THEN 0
  ELSE LET x == CHOOSE y \in S : TRUE IN f[x] + Sum(f, S \ {x})

\* sequences over S of length at most n
SeqsUpTo(S, n) == UNION {[1..k -> S] : k \in 0..n}

\* x IN list
In(x, list) == x \in Range(list)

\* ORDER BY score DESC: every arrangement of the rows in which the score
\* never increases; rows of equal score come in an order the store picks
\* a faulty ORDER BY: the rows in any order
RECURSIVE OrderByNothing(_)
OrderByNothing(rows) ==
  IF rows = {} THEN {<<>>}
  ELSE UNION {{<<r>> \o rest : rest \in OrderByNothing(rows \ {r})} : r \in rows}

RECURSIVE OrderByScoreDesc(_)
OrderByScoreDesc(rows) ==
  IF rows = {} THEN {<<>>}
  ELSE LET top == {r \in rows : \A q \in rows : q.score <= r.score}
       IN UNION {{<<r>> \o rest : rest \in OrderByScoreDesc(rows \ {r})} : r \in top}

\* a faulty LIMIT: one row too many
LimitOneMore(rows, amount) == SubSeq(rows, 1, Min(amount + 1, Len(rows)))

\* LIMIT $amount
Limit(rows, amount) == SubSeq(rows, 1, Min(amount, Len(rows)))

\* ---------------------------------------- recommendMoviesByUserSimilarity
\* a faulty overlap: AND r.rating >= 4 left out
overlapAnyRating(u, likedTitles) ==
  Cardinality({m \in Titles : In(m, likedTitles) /\ rated[<<u, m>>] # NoRating})

\* MATCH (u:User)-[r:RATED]->(m:Movie)
\* WHERE m.title IN $likedTitles AND r.rating >= 4
\* WITH u, COUNT(m) AS overlap
overlap(u, likedTitles) ==
  Cardinality({m \in Titles : In(m, likedTitles) /\ rated[<<u, m>>] >= MinRating})

\* the users that survive the first WITH: those with at least one row
SimilarUsers(likedTitles) == {u \in Users : overlap(u, likedTitles) > 0}

\* MATCH (u)-[r2:RATED]->(rec:Movie)
\* WHERE r2.rating >= 4 AND NOT rec.title IN $likedTitles
Contributors(rec, likedTitles) ==
  {u \in SimilarUsers(likedTitles) : rated[<<u, rec>>] >= MinRating}

\* a faulty candidate filter: NOT rec.title IN $likedTitles left out
CollabCandidatesWithLiked(likedTitles) ==
  {rec \in Titles : Contributors(rec, likedTitles) # {}}

CollabCandidates(likedTitles) ==
  {rec \in Titles : ~In(rec, likedTitles) /\ Contributors(rec, likedTitles) # {}}

\* a faulty score: COUNT(u) in place of SUM(overlap)
scoreCountsUsers(rec, likedTitles) == Cardinality(Contributors(rec, likedTitles))

\* WITH rec, SUM(overlap) AS score, COUNT(DISTINCT u) AS voters
score(rec, likedTitles) ==
  Sum([u \in Users |-> overlap(u, likedTitles)], Contributors(rec, likedTitles))

voters(rec, likedTitles) == Cardinality(Contributors(rec, likedTitles))

\* MATCH (rec)-[:HAS_GENRE]->(g:Genre)
\* WITH rec, score, COLLECT(g.name) as genres
CollabRows(likedTitles) ==
  {[rec |-> rec, score |-> score(rec, likedTitles), genres |-> hasGenre[rec]] :
     rec \in {c \in CollabCandidates(likedTitles) : hasGenre[c] # <<>>}}

\* result.records.map((r) => ({...r.get("rec").properties, genres: r.get("genres")}))
CollabRecord(row) ==
  [title |-> row.rec, year |-> movies[row.rec].year,
   runtime |-> movies[row.rec].runtime,
   original_language |-> movies[row.rec].original_language,
   genres |-> row.genres]

recommendMoviesByUserSimilarity ==
  /\ call.op = "none"
  /\ \E likedTitles \in SeqsUpTo(Titles, MaxTitles), amount \in 0..MaxAmount :
       \E ordered \in OrderByScoreDesc(CollabRows(likedTitles)) :
         /\ call' = [op |-> "recommendMoviesByUserSimilarity",
                     likedTitles |-> likedTitles, amount |-> amount]
         /\ ret' = [i \in 1..Len(Limit(ordered, amount)) |->
                      CollabRecord(Limit(ordered, amount)[i])]
         /\ thrown' = "none"
         /\ queries' = <<"answered">>
         /\ UNCHANGED <<graph, process>>

\* the lists the call can return: one per order the store can give the rows
\* of equal score
CollabReturns(likedTitles, amount) ==
  {[i \in 1..Len(Limit(ordered, amount)) |-> CollabRecord(Limit(ordered, amount)[i])] :
     ordered \in OrderByScoreDesc(CollabRows(likedTitles))}

\* ---------------------------------------------------- recommendContentBased
GenresOf(t) == Range(hasGenre[t])

\* UNWIND $titles AS inputTitle
\* MATCH (m:Movie {title: inputTitle})
\* the seed movies in the order of their first occurrence in $titles; the
\* aggregation on (rec, m) below merges the rows of a repeated title
RECURSIVE SeedMovies(_)
SeedMovies(titles) ==
  IF titles = <<>> THEN <<>>
  ELSE LET front == SeedMovies(SubSeq(titles, 1, Len(titles) - 1))
           last == titles[Len(titles)]
       IN IF last \in DOMAIN movies /\ ~In(last, front)
          THEN Append(front, last) ELSE front

\* a faulty match: WHERE NOT rec.title IN $titles left out
GenreMatchWithSeeds(m, rec, titles) ==
  /\ rec # m
  /\ Range(hasGenre[m]) \cap Range(hasGenre[rec]) # {}

\* MATCH (m)-[:HAS_GENRE]->(g)<-[:HAS_GENRE]-(rec:Movie)
\* WHERE NOT rec.title IN $titles
\* (the two relationships of one pattern are distinct, so rec is not m)
GenreMatch(m, rec, titles) ==
  /\ rec # m
  /\ GenresOf(m) \cap GenresOf(rec) # {}
  /\ ~In(rec, titles)

\* WITH rec, count(DISTINCT g) AS commonGenres, m, collect(DISTINCT g.name) as genres
commonGenres(m, rec) == Cardinality(GenresOf(m) \cap GenresOf(rec))

\* the shared genre names in the order the store expands them from m
SharedGenreNames(m, rec) ==
  LET shared(g) == g \in GenresOf(rec) IN SelectSeq(hasGenre[m], shared)

\* OPTIONAL MATCH (m)-[:DIRECTED_BY]->(d)<-[:DIRECTED_BY]-(rec)
\* count(DISTINCT d) AS commonDirectors
commonDirectors(m, rec) ==
  Cardinality({d \in {e[2] : e \in directedBy} :
                 /\ <<MovieNode(m), d>> \in directedBy
                 /\ <<MovieNode(rec), d>> \in directedBy})

\* OPTIONAL MATCH (m)<-[:ACTED_IN]-(a)<-[:ACTED_IN]-(rec)
\* count(DISTINCT a) AS commonActors
\* a has an ACTED_IN relationship to m, and rec has one to a
commonActors(m, rec) ==
  Cardinality({a \in {e[1] : e \in actedIn} :
                 /\ <<a, MovieNode(m)>> \in actedIn
                 /\ <<MovieNode(rec), a>> \in actedIn})

\* OPTIONAL MATCH (rec) WHERE abs(m.runtime - rec.runtime) < 10
\* rec is already bound and the pattern introduces no variable: the row is
\* kept with rec bound whether or not the predicate holds
RuntimeClose(m, rec) ==
  LET diff == movies[m].runtime - movies[rec].runtime
  IN (IF diff < 0 THEN 0 - diff ELSE diff) < 10

\* a faulty row score: one more for a runtime within 10 of the seed's
RowScoreWithRuntime(m, rec) ==
  commonGenres(m, rec) + commonDirectors(m, rec) + commonActors(m, rec)
    + (IF RuntimeClose(m, rec) THEN 1 ELSE 0)

\* commonGenres + commonDirectors + commonActors of one (rec, m) row
RowScore(m, rec) == commonGenres(m, rec) + commonDirectors(m, rec) + commonActors(m, rec)

\* the seeds whose row falls into the group (rec, genres)
GroupSeeds(rec, genres, titles) ==
  LET inGroup(m) == GenreMatch(m, rec, titles) /\ SharedGenreNames(m, rec) = genres
  IN SelectSeq(SeedMovies(titles), inGroup)

RECURSIVE SumRowScores(_, _)
SumRowScores(seeds, rec) ==
  IF seeds = <<>> THEN 0
  ELSE RowScore(Head(seeds), rec) + SumRowScores(Tail(seeds), rec)

\* a faulty merge: the first seed of the group wins instead of the sum
totalScoreFirstWins(rec, genres, titles) ==
  RowScore(Head(GroupSeeds(rec, genres, titles)), rec)

\* WITH rec, sum(commonGenres + commonDirectors + commonActors) AS totalScore, genres
totalScore(rec, genres, titles) == SumRowScores(GroupSeeds(rec, genres, titles), rec)

\* the grouping keys (rec, genres)
ContentGroups(titles) ==
  {<<rec, SharedGenreNames(m, rec)>> :
     <<m, rec>> \in {p \in Range(SeedMovies(titles)) \X Titles :
                       GenreMatch(p[1], p[2], titles)}}

\* RETURN rec, totalScore AS score, genres
ContentRows(titles) ==
  {[rec |-> k[1], score |-> totalScore(k[1], k[2], titles), genres |-> k[2]] :
     k \in ContentGroups(titles)}

\* result.records.map((r) => ({...r.get("rec").properties, genres, score}))
ContentRecord(row) ==
  [title |-> row.rec, year |-> movies[row.rec].year,
   runtime |-> movies[row.rec].runtime,
   original_language |-> movies[row.rec].original_language,
   genres |-> row.genres, score |-> row.score]

recommendContentBased ==
  /\ call.op = "none"
  /\ \E titles \in SeqsUpTo(Titles, MaxTitles), amount \in 0..MaxAmount :
       \E ordered \in OrderByScoreDesc(ContentRows(titles)) :
         /\ call' = [op |-> "recommendContentBased",
                     titles |-> titles, amount |-> amount]
         /\ ret' = [i \in 1..Len(Limit(ordered, amount)) |->
                      ContentRecord(Limit(ordered, amount)[i])]
         /\ thrown' = "none"
         /\ queries' = <<"answered">>
         /\ UNCHANGED <<graph, process>>

\* the lists the call can return
ContentReturns(titles, amount) ==
  {[i \in 1..Len(Limit(ordered, amount)) |-> ContentRecord(Limit(ordered, amount)[i])] :
     ordered \in OrderByScoreDesc(ContentRows(titles))}

\* ---------------------------------------------------- recommendByAttributes
\* a faulty genre match: WHERE g.name IN $genres left out
genreScoreAllGenres(rec, genres) == Cardinality(GenresOf(rec))

\* OPTIONAL MATCH (rec)-[:HAS_GENRE]->(g:Genre) WHERE g.name IN $genres
\* count(DISTINCT g) AS genreScore
genreScore(rec, genres) == Cardinality({g \in GenresOf(rec) : In(g, genres)})

DirectorsOf(rec) ==
  {d \in Directors : <<MovieNode(rec), DirectorNode(d)>> \in directedBy}

ActorsOf(rec) ==
  {a \in Actors : <<ActorNode(a), MovieNode(rec)>> \in actedIn}

\* OPTIONAL MATCH (rec)-[:DIRECTED_BY]->(d:Director) WHERE d.name IN $directors
directorScore(rec, directors) == Cardinality({d \in DirectorsOf(rec) : In(d, directors)})

\* OPTIONAL MATCH (rec)<-[:ACTED_IN]-(a:Actor) WHERE a.name IN $actors
actorScore(rec, actors) == Cardinality({a \in ActorsOf(rec) : In(a, actors)})

\* CASE WHEN movieRuntime >= $runtime.min AND movieRuntime <= $runtime.max THEN 1 ELSE 0 END
runtimeScore(rec, runtime) ==
  IF movies[rec].runtime >= runtime.min /\ movies[rec].runtime <= runtime.max
  THEN 1 ELSE 0

\* CASE WHEN size($languages) > 0 AND movieLanguage IN $languages THEN 1 ELSE 0 END
languageScore(rec, languages) ==
  IF Len(languages) > 0 /\ In(movies[rec].original_language, languages)
  THEN 1 ELSE 0

\* a faulty decade: the year itself instead of its decade
decadeScoreOfYear(rec, releaseDecades) ==
  IF Len(releaseDecades) > 0 /\ In(movies[rec].year, releaseDecades)
  THEN 1 ELSE 0

\* CASE WHEN size($releaseDecades) > 0
\*      AND floor(toInteger(movieYear) / 10) * 10 IN $releaseDecades THEN 1 ELSE 0 END
decadeScore(rec, releaseDecades) ==
  IF Len(releaseDecades) > 0 /\ In((movies[rec].year \div 10) * 10, releaseDecades)
  THEN 1 ELSE 0

\* genreScore + directorScore + actorScore + runtimeScore + languageScore + decadeScore
attrTotalScore(rec, c) ==
  genreScore(rec, c.genres) + directorScore(rec, c.directors)
    + actorScore(rec, c.actors) + runtimeScore(rec, c.runtime)
    + languageScore(rec, c.languages) + decadeScore(rec, c.releaseDecades)

\* MATCH (rec:Movie) ... RETURN rec, totalScore, genres, directors, actors
\* directors and actors stand for the collected lists, whose order is the store's
AttributeRows(c) ==
  {[rec |-> rec, score |-> attrTotalScore(rec, c), genres |-> hasGenre[rec],
    directors |-> DirectorsOf(rec), actors |-> ActorsOf(rec)] : rec \in DOMAIN movies}

\* result.map((r) => ({...r.get("rec").properties, genres, directors, actors, score}))
AttributeRecord(row) ==
  [title |-> row.rec, year |-> movies[row.rec].year,
   runtime |-> movies[row.rec].runtime,
   original_language |-> movies[row.rec].original_language,
   genres |-> row.genres, directors |-> row.directors, actors |-> row.actors,
   score |-> row.score]

\* the criteria a caller passes
RuntimeRanges ==
  { [min |-> DefaultRuntimeMin, max |-> DefaultRuntimeMax], [min |-> 120, max |-> 180] }

Criteria ==
  [genres : {<<>>, <<1>>}, directors : SeqsUpTo(Directors, 1),
   actors : SeqsUpTo(Actors, 1), runtime : RuntimeRanges,
   languages : {<<>>, <<"en">>}, releaseDecades : {<<>>, <<2020>>}]

\* a faulty query: MERGE (rec)-[:HAS_GENRE]->(g:Genre) in place of the
\* OPTIONAL MATCH of the genres, which creates a Genre node
recommendByAttributesMerging ==
  /\ call.op = "none"
  /\ \E c \in Criteria, amount \in 0..MaxAmount :
       \E ordered \in OrderByScoreDesc(AttributeRows(c)) :
         /\ call' = [op |-> "recommendByAttributes", criteria |-> c, amount |-> amount]
         /\ ret' = [i \in 1..Len(Limit(ordered, amount)) |->
                      AttributeRecord(Limit(ordered, amount)[i])]
         /\ thrown' = "none"
         /\ queries' = <<"answered">>
         /\ nodes' = [nodes EXCEPT ![GenreNode(1)] = @ + 1]
         /\ UNCHANGED <<movies, hasGenre, directedBy, actedIn, rated, process>>

recommendByAttributes ==
  /\ call.op = "none"
  /\ \E c \in Criteria, amount \in 0..MaxAmount :
       \E ordered \in OrderByScoreDesc(AttributeRows(c)) :
         /\ call' = [op |-> "recommendByAttributes", criteria |-> c, amount |-> amount]
         /\ ret' = [i \in 1..Len(Limit(ordered, amount)) |->
                      AttributeRecord(Limit(ordered, amount)[i])]
         /\ thrown' = "none"
         /\ queries' = <<"answered">>
         /\ UNCHANGED <<graph, process>>

\* the lists the call can return
AttributeReturns(c, amount) ==
  {[i \in 1..Len(Limit(ordered, amount)) |-> AttributeRecord(Limit(ordered, amount)[i])] :
     ordered \in OrderByScoreDesc(AttributeRows(c))}

\* ---------------------------------------------------- findDirectorsForActor
\* MATCH (a:Actor {name: $actorName})-[:ACTED_IN]->(m)<-[:DIRECTED_BY]-(d:Director)
\* RETURN DISTINCT d.name AS director
\* the pattern asks for a DIRECTED_BY relationship that starts at the Director
DirectorsMatched(actorName) ==
  {d \in Directors :
     \E m \in Titles : /\ <<ActorNode(actorName), MovieNode(m)>> \in actedIn
                       /\ <<DirectorNode(d), MovieNode(m)>> \in directedBy}

\* query() gives the array of the records when the store answers and
\* undefined when it rejects; result.records is undefined in both cases and
\* result.records.map(...) throws a TypeError before a name is read
findDirectorsForActor ==
  /\ call.op = "none"
  /\ \E actorName \in Actors, answer \in {"answered", "rejected"} :
       /\ call' = [op |-> "findDirectorsForActor", actorName |-> actorName,
                   records |-> IF answer = "answered"
                               THEN Cardinality(DirectorsMatched(actorName)) ELSE 0]
       /\ queries' = <<answer>>
  /\ ret' = <<>>
  /\ thrown' = "TypeError"
  /\ UNCHANGED <<graph, process>>

\* ------------------------------------------------- the command line program
\* amount = 10, the default of the three strategies
DefaultAmount == 10

\* the value of an expression that is undefined
Undefined == "undefined"

\* db/index.js, loaded before main() runs: the driver is created and the last
\* statement of the module, await driver.close(), closes it
loadIndex ==
  /\ cli.pc = "start"
  /\ driver' = "closed"
  /\ cli' = [pc |-> "main"]
  /\ UNCHANGED <<graph, sessions, call, ret, thrown, queries>>

\* the choices of the first prompt of main()
Algorithms == {"user", "content", "attributes", "unknown"}

\* the answers askUserPreferences() collects with its prompts: languages and
\* era are the values of the choices ticked, runtime is the range selected
Preferences ==
  [genres : {<<>>, <<1>>}, actors : {<<>>}, directors : {<<>>},
   languages : {<<>>, <<"en">>, <<"fr", "en">>},
   era : {<<>>, <<"2020">>, <<"1990">>},
   runtime : {[min |-> 90, max |-> 120], [min |-> 150, max |-> 180]}]

\* list?.[0]
First(list) == IF list = <<>> THEN Undefined ELSE list[1]

\* the object getRecommendations passes to recommendByAttributes; the values of
\* era hold no "s" for replace("s", "") to remove
PassedAttributes(preferences) ==
  [genres |-> preferences.genres,
   directors |-> preferences.directors,
   actors |-> preferences.actors,
   runtime |-> preferences.runtime,
   language |-> First(preferences.languages),
   releaseDecade |-> First(preferences.era)]

\* object.key, or the default when the object has no such key
Field(object, key, default) == IF key \in DOMAIN object THEN object[key] ELSE default

\* the parameter of recommendByAttributes:
\* { genres = [], directors = [], actors = [], runtime = { min: 0, max: 300 },
\*   languages = [], releaseDecades = [] }
Destructure(attributes) ==
  [genres |-> Field(attributes, "genres", <<>>),
   directors |-> Field(attributes, "directors", <<>>),
   actors |-> Field(attributes, "actors", <<>>),
   runtime |-> Field(attributes, "runtime",
                     [min |-> DefaultRuntimeMin, max |-> DefaultRuntimeMax]),
   languages |-> Field(attributes, "languages", <<>>),
   releaseDecades |-> Field(attributes, "releaseDecades", <<>>)]

\* the switch of getRecommendations(type, preferences)
StrategyCall(type, preferences) ==
  CASE type = "user" ->
         [op |-> "recommendMoviesByUserSimilarity",
          likedTitles |-> Field(preferences, "likedMovies", <<>>),
          amount |-> DefaultAmount]
    [] type = "content" ->
         [op |-> "recommendContentBased",
          titles |-> Field(preferences, "likedMovies", <<>>),
          amount |-> DefaultAmount]
    [] type = "attributes" ->
         [op |-> "recommendByAttributes",
          criteria |-> Destructure(PassedAttributes(preferences)),
          amount |-> DefaultAmount]

StrategyReturns(c) ==
  CASE c.op = "recommendMoviesByUserSimilarity" -> CollabReturns(c.likedTitles, c.amount)
    [] c.op = "recommendContentBased" -> ContentReturns(c.titles, c.amount)
    [] c.op = "recommendByAttributes" -> AttributeReturns(c.criteria, c.amount)

\* the error a strategy throws when the store rejects its query
StrategyError(c) ==
  IF c.op = "recommendByAttributes" THEN "TypeError" ELSE "Neo4jError"

\* the user picks 'user' or 'content' and is asked for liked movies
AsksLikedMovies(algorithm) == algorithm \in {"user", "content"}

\* "No movies selected. Using preference-based recommendations instead."
Warns(algorithm, likedMovies) == AsksLikedMovies(algorithm) /\ likedMovies = <<>>

\* preferences as main() passes them to getRecommendations
CollectedPreferences(algorithm, likedMovies, answers) ==
  IF AsksLikedMovies(algorithm) /\ ~Warns(algorithm, likedMovies)
  THEN [likedMovies |-> likedMovies]
  ELSE answers

\* const finalAlgorithm = algorithm === "unknown" ? "attributes" : algorithm
FinalAlgorithm(algorithm) == IF algorithm = "unknown" THEN "attributes" ELSE algorithm

\* the queries of the prompts, which the store answers: searchMovie for the
\* choices of collectLikedMovies; searchGenres, searchActors and
\* searchDirectors for those of askUserPreferences
PromptQueries(algorithm, likedMovies) ==
  LET asked == (IF AsksLikedMovies(algorithm) THEN 1 ELSE 0)
                 + (IF AsksLikedMovies(algorithm) /\ ~Warns(algorithm, likedMovies)
                    THEN 0 ELSE 3)
  IN [i \in 1..asked |-> "answered"]

\* main(): the prompts, then getRecommendations(finalAlgorithm, preferences),
\* whose strategy returns; the recommendations are saved and shown
main ==
  /\ cli.pc = "main"
  /\ \E algorithm \in Algorithms, likedMovies \in SeqsUpTo(Titles, 1),
        answers \in Preferences :
       LET preferences == CollectedPreferences(algorithm, likedMovies, answers)
           c == StrategyCall(FinalAlgorithm(algorithm), preferences)
       IN /\ call' = c
          /\ ret' \in StrategyReturns(c)
          /\ queries' = PromptQueries(algorithm, likedMovies) \o <<"answered">>
          /\ cli' = [pc |-> "done", algorithm |-> algorithm,
                     warned |-> Warns(algorithm, likedMovies),
                     preferences |-> preferences]
  /\ thrown' = "none"
  /\ UNCHANGED <<graph, driver, sessions>>

\* main() when the store rejects the query of the strategy: getRecommendations
\* throws the error on, main() reports it and the process exits with 1
mainRejected ==
  /\ cli.pc = "main"
  /\ \E algorithm \in Algorithms, likedMovies \in SeqsUpTo(Titles, 1),
        answers \in Preferences :
       LET preferences == CollectedPreferences(algorithm, likedMovies, answers)
           c == StrategyCall(FinalAlgorithm(algorithm), preferences)
       IN /\ call' = c
          /\ thrown' = StrategyError(c)
          /\ sessions' = IF c.op = "recommendByAttributes" THEN sessions ELSE sessions + 1
          /\ queries' = PromptQueries(algorithm, likedMovies) \o <<"rejected">>
          /\ cli' = [pc |-> "failed", algorithm |-> algorithm,
                     warned |-> Warns(algorithm, likedMovies),
                     preferences |-> preferences]
  /\ ret' = <<>>
  /\ UNCHANGED <<graph, driver>>

\* the first prompt is cancelled: "Goodbye!" and main() returns
mainCancelled ==
  /\ cli.pc = "main"
  /\ cli' = [pc |-> "goodbye"]
  /\ UNCHANGED <<graph, driver, sessions, call, ret, thrown, queries>>

\* the caller has the outcome of its call and can call again
returned ==
  /\ call.op # "none"
  /\ call' = [op |-> "none"]
  /\ ret' = <<>>
  /\ thrown' = "none"
  /\ queries' = <<>>
  /\ UNCHANGED <<graph, process>>

\* --------------------------------------------------- calls that go wrong
\* the amounts a caller can pass, a negative one among them
Amounts == (0 - 1)..MaxAmount

\* session.run rejects: LIMIT of a negative $amount is an argument error of
\* the store, and the store can fail to answer a query of any amount.  The
\* rejection leaves the function at its await, so that session.close() is
\* not reached and the session stays open, and reaches the caller as the
\* store's error
recommendMoviesByUserSimilarityRejected ==
  /\ call.op = "none"
  /\ \E likedTitles \in SeqsUpTo(Titles, MaxTitles), amount \in Amounts :
       call' = [op |-> "recommendMoviesByUserSimilarity",
                likedTitles |-> likedTitles, amount |-> amount]
  /\ ret' = <<>>
  /\ thrown' = "Neo4jError"
  /\ queries' = <<"rejected">>
  /\ sessions' = sessions + 1
  /\ UNCHANGED <<graph, driver, cli>>

recommendContentBasedRejected ==
  /\ call.op = "none"
  /\ \E titles \in SeqsUpTo(Titles, MaxTitles), amount \in Amounts :
       call' = [op |-> "recommendContentBased", titles |-> titles, amount |-> amount]
  /\ ret' = <<>>
  /\ thrown' = "Neo4jError"
  /\ queries' = <<"rejected">>
  /\ sessions' = sessions + 1
  /\ UNCHANGED <<graph, driver, cli>>

\* query() catches the rejection, logs it and returns undefined;
\* result.map(...) on undefined then throws a TypeError
recommendByAttributesRejected ==
  /\ call.op = "none"
  /\ \E c \in Criteria, amount \in Amounts :
       call' = [op |-> "recommendByAttributes", criteria |-> c, amount |-> amount]
  /\ ret' = <<>>
  /\ thrown' = "TypeError"
  /\ queries' = <<"rejected">>
  /\ UNCHANGED <<graph, process>>

\* criteria whose runtime range has min > max; the function passes them to
\* the query as they are
MalformedCriteria ==
  [genres : {<<>>, <<1>>}, directors : {<<>>}, actors : {<<>>},
   runtime : {[min |-> 180, max |-> 120]},
   languages : {<<>>, <<"en">>}, releaseDecades : {<<>>}]

recommendByAttributesMalformed ==
  /\ call.op = "none"
  /\ \E c \in MalformedCriteria, amount \in 0..MaxAmount :
       /\ call' = [op |-> "recommendByAttributes", criteria |-> c, amount |-> amount]
       /\ ret' \in AttributeReturns(c, amount)
  /\ thrown' = "none"
  /\ queries' = <<"answered">>
  /\ UNCHANGED <<graph, process>>

\* ------------------------------------------------------------------- Init
\* properties of a Movie node as createMovie sets them
DuneProfile == [year |-> 2021, runtime |-> 155, original_language |-> "en"]

\* a movie that differs from Dune in every property
PlainProfile == [year |-> 1999, runtime |-> 95, original_language |-> "fr"]

Profiles == {DuneProfile, PlainProfile}

\* ----------------------------------- createMovie, updateMovie, deleteMovie
\* the properties read off a title that has no node
NoProperties == [year |-> 0, runtime |-> 0, original_language |-> "none"]

\* a faulty MERGE: CREATE (m:Movie {title: $title}) adds a node in any case
CreateNode(count) == count + 1

\* MERGE (m:Movie {title: $title}): the nodes of the title when it has some,
\* one new node otherwise
MergeNode(count) == IF count = 0 THEN 1 ELSE count

\* MERGE (m:Movie {title: $title})
\* SET m.year = $year, m.runtime = $runtime, m.original_language = $language, ...
createMovieOf(title, profile) ==
  /\ call.op = "none"
  /\ nodes' = [nodes EXCEPT ![MovieNode(title)] = MergeNode(@)]
  /\ movies' = [movies EXCEPT ![title] = profile]
  /\ UNCHANGED <<hasGenre, directedBy, actedIn, rated, call, ret, thrown, queries, process>>

createMovie == \E title \in Titles, profile \in Profiles : createMovieOf(title, profile)

\* the runtimes a caller sets
Runtimes == {DuneProfile.runtime, PlainProfile.runtime}

\* the updates a caller passes: objects with the keys runtime, title or both
Updates ==
  {[runtime |-> r] : r \in Runtimes} \cup {[title |-> n] : n \in Titles}
    \cup {[title |-> n, runtime |-> r] : n \in Titles, r \in Runtimes}

\* the value of $title among the parameters { title, ...updates }: a title
\* key of updates replaces the title argument
MatchedTitle(title, updates) ==
  IF "title" \in DOMAIN updates THEN updates.title ELSE title

\* SET m.key = $key for every key of updates; m.title = $title sets the title
\* of the matched node to the title it was matched by
SetProperties(properties, updates) ==
  [key \in DOMAIN properties |->
     IF key \in DOMAIN updates THEN updates[key] ELSE properties[key]]

\* MATCH (m:Movie {title: $title}) SET m.key = $key, ...
updateMovieOf(title, updates) ==
  /\ call.op = "none"
  /\ movies' = IF nodes[MovieNode(MatchedTitle(title, updates))] > 0
               THEN [movies EXCEPT ![MatchedTitle(title, updates)] =
                                      SetProperties(@, updates)]
               ELSE movies
  /\ UNCHANGED <<hasGenre, directedBy, actedIn, rated, nodes, call, ret, thrown, queries, process>>

updateMovie == \E title \in Titles, updates \in Updates : updateMovieOf(title, updates)

\* MATCH (m:Movie {title: $title}) DETACH DELETE m
deleteMovieOf(title) ==
  /\ call.op = "none"
  /\ nodes' = [nodes EXCEPT ![MovieNode(title)] = 0]
  /\ movies' = [movies EXCEPT ![title] = NoProperties]
  /\ hasGenre' = [hasGenre EXCEPT ![title] = <<>>]
  /\ directedBy' = {e \in directedBy : MovieNode(title) \notin {e[1], e[2]}}
  /\ actedIn' = {e \in actedIn : MovieNode(title) \notin {e[1], e[2]}}
  /\ rated' = [p \in DOMAIN rated |-> IF p[2] = title THEN NoRating ELSE rated[p]]
  /\ UNCHANGED <<call, ret, thrown, queries, process>>

deleteMovie == \E title \in Titles : deleteMovieOf(title)

\* ------------------------------------------- genres, actors and directors
\* a relationship is kept between the keys of its end nodes: the
\* relationships of the nodes of one name are told apart by their other end
\* MATCH (n {name: $oldName}) SET n.name = $newName: every node of the old
\* name carries the new name afterwards, next to the nodes that had it
RenameNode(count, old, new) ==
  IF old = new THEN count
  ELSE [count EXCEPT ![new] = @ + count[old], ![old] = 0]

RenameEnd(edges, old, new) ==
  {<<IF e[1] = old THEN new ELSE e[1], IF e[2] = old THEN new ELSE e[2]>> : e \in edges}

\* the absent movieTitle argument of createActor and createDirector
NoTitle == 0

\* MERGE (g:Genre {name: $name})
createGenre ==
  /\ call.op = "none"
  /\ \E name \in Genres :
       nodes' = [nodes EXCEPT ![GenreNode(name)] = MergeNode(@)]
  /\ UNCHANGED <<movies, hasGenre, directedBy, actedIn, rated, call, ret, thrown, queries, process>>

\* MATCH (g:Genre {name: $oldName}) SET g.name = $newName
updateGenreName ==
  /\ call.op = "none"
  /\ \E oldName \in Genres, newName \in Genres :
       /\ oldName # newName =>
            nodes[GenreNode(oldName)] + nodes[GenreNode(newName)] <= MaxCopies
       /\ nodes' = RenameNode(nodes, GenreNode(oldName), GenreNode(newName))
       /\ hasGenre' = [t \in Titles |->
                         [i \in 1..Len(hasGenre[t]) |->
                            IF hasGenre[t][i] = oldName THEN newName ELSE hasGenre[t][i]]]
  /\ UNCHANGED <<movies, directedBy, actedIn, rated, call, ret, thrown, queries, process>>

\* MATCH (g:Genre {name: $name}) DETACH DELETE g
deleteGenre ==
  /\ call.op = "none"
  /\ \E name \in Genres :
       /\ nodes' = [nodes EXCEPT ![GenreNode(name)] = 0]
       /\ hasGenre' = [t \in Titles |-> SelectSeq(hasGenre[t], LAMBDA g : g # name)]
  /\ UNCHANGED <<movies, directedBy, actedIn, rated, call, ret, thrown, queries, process>>

\* MATCH (g:Genre {name: $genreName}), (m:Movie {title: $movieTitle})
\* MERGE (m)-[:HAS_GENRE]->(g)
relateGenreToMovie ==
  /\ call.op = "none"
  /\ \E genreName \in Genres, movieTitle \in Titles :
       hasGenre' = IF /\ nodes[GenreNode(genreName)] > 0
                      /\ nodes[MovieNode(movieTitle)] > 0
                      /\ ~In(genreName, hasGenre[movieTitle])
                   THEN [hasGenre EXCEPT ![movieTitle] = Append(@, genreName)]
                   ELSE hasGenre
  /\ UNCHANGED <<movies, directedBy, actedIn, rated, nodes, call, ret, thrown, queries, process>>

\* MERGE (a:Actor {name: $name})
\* and with a movieTitle: WITH a MATCH (m:Movie {title: $movieTitle})
\*                        MERGE (a)-[:ACTED_IN]->(m)
createActor ==
  /\ call.op = "none"
  /\ \E name \in Actors, movieTitle \in Titles \cup {NoTitle} :
       /\ nodes' = [nodes EXCEPT ![ActorNode(name)] = MergeNode(@)]
       /\ actedIn' = IF movieTitle # NoTitle /\ nodes[MovieNode(movieTitle)] > 0
                     THEN actedIn \cup {<<ActorNode(name), MovieNode(movieTitle)>>}
                     ELSE actedIn
  /\ UNCHANGED <<movies, hasGenre, directedBy, rated, call, ret, thrown, queries, process>>

\* MATCH (a:Actor {name: $oldName}) SET a.name = $newName
updateActorName ==
  /\ call.op = "none"
  /\ \E oldName \in Actors, newName \in Actors :
       /\ oldName # newName =>
            nodes[ActorNode(oldName)] + nodes[ActorNode(newName)] <= MaxCopies
       /\ nodes' = RenameNode(nodes, ActorNode(oldName), ActorNode(newName))
       /\ actedIn' = RenameEnd(actedIn, ActorNode(oldName), ActorNode(newName))
  /\ UNCHANGED <<movies, hasGenre, directedBy, rated, call, ret, thrown, queries, process>>

\* MATCH (a:Actor {name: $name}) DETACH DELETE a
deleteActor ==
  /\ call.op = "none"
  /\ \E name \in Actors :
       /\ nodes' = [nodes EXCEPT ![ActorNode(name)] = 0]
       /\ actedIn' = {e \in actedIn : ActorNode(name) \notin {e[1], e[2]}}
  /\ UNCHANGED <<movies, hasGenre, directedBy, rated, call, ret, thrown, queries, process>>

\* MATCH (a:Actor {name: $actorName}), (m:Movie {title: $movieTitle})
\* MERGE (a)-[:ACTED_IN]->(m)
relateActorToMovie ==
  /\ call.op = "none"
  /\ \E actorName \in Actors, movieTitle \in Titles :
       actedIn' = IF nodes[ActorNode(actorName)] > 0 /\ nodes[MovieNode(movieTitle)] > 0
                  THEN actedIn \cup {<<ActorNode(actorName), MovieNode(movieTitle)>>}
                  ELSE actedIn
  /\ UNCHANGED <<movies, hasGenre, directedBy, rated, nodes, call, ret, thrown, queries, process>>

\* MERGE (d:Director {name: $name})
\* and with a movieTitle: WITH d MATCH (m:Movie {title: $movieTitle})
\*                        MERGE (m)-[:DIRECTED_BY]->(d)
createDirector ==
  /\ call.op = "none"
  /\ \E name \in Directors, movieTitle \in Titles \cup {NoTitle} :
       /\ nodes' = [nodes EXCEPT ![DirectorNode(name)] = MergeNode(@)]
       /\ directedBy' = IF movieTitle # NoTitle /\ nodes[MovieNode(movieTitle)] > 0
                        THEN directedBy \cup {<<MovieNode(movieTitle), DirectorNode(name)>>}
                        ELSE directedBy
  /\ UNCHANGED <<movies, hasGenre, actedIn, rated, call, ret, thrown, queries, process>>

\* MATCH (d:Director {name: $oldName}) SET d.name = $newName
updateDirectorName ==
  /\ call.op = "none"
  /\ \E oldName \in Directors, newName \in Directors :
       /\ oldName # newName =>
            nodes[DirectorNode(oldName)] + nodes[DirectorNode(newName)] <= MaxCopies
       /\ nodes' = RenameNode(nodes, DirectorNode(oldName), DirectorNode(newName))
       /\ directedBy' = RenameEnd(directedBy, DirectorNode(oldName), DirectorNode(newName))
  /\ UNCHANGED <<movies, hasGenre, actedIn, rated, call, ret, thrown, queries, process>>

\* MATCH (d:Director {name: $name}) DETACH DELETE d
deleteDirector ==
  /\ call.op = "none"
  /\ \E name \in Directors :
       /\ nodes' = [nodes EXCEPT ![DirectorNode(name)] = 0]
       /\ directedBy' = {e \in directedBy : DirectorNode(name) \notin {e[1], e[2]}}
  /\ UNCHANGED <<movies, hasGenre, actedIn, rated, call, ret, thrown, queries, process>>

\* MATCH (d:Director {name: $directorName}), (m:Movie {title: $movieTitle})
\* MERGE (m)-[:DIRECTED_BY]->(d)
relateDirectorToMovie ==
  /\ call.op = "none"
  /\ \E directorName \in Directors, movieTitle \in Titles :
       directedBy' = IF /\ nodes[DirectorNode(directorName)] > 0
                        /\ nodes[MovieNode(movieTitle)] > 0
                     THEN directedBy \cup {<<MovieNode(movieTitle), DirectorNode(directorName)>>}
                     ELSE directedBy
  /\ UNCHANGED <<movies, hasGenre, actedIn, rated, nodes, call, ret, thrown, queries, process>>

\* the genre names of one movie, each at most once (MERGE), in store order
GenreChains == {c \in SeqsUpTo(Genres, MaxGenres) :
                  \A i, j \in DOMAIN c : i # j => c[i] # c[j]}

RECURSIVE GenreEdges(_, _)
GenreEdges(h, S) ==
  IF S = {} THEN 0
  ELSE LET x == CHOOSE y \in S : TRUE IN Len(h[x]) + GenreEdges(h, S \ {x})

RatedEdges(r) == Cardinality({p \in DOMAIN r : r[p] # NoRating})

DirectedBySlots == {<<MovieNode(t), DirectorNode(n)>> : t \in Titles, n \in Directors}

ActedInSlots == {<<ActorNode(n), MovieNode(t)>> : n \in Actors, t \in Titles}

NoRatings == [p \in Users \X Titles |-> NoRating]

NoGenre(h) == Cardinality({t \in Titles : h[t] = <<>>})

\* a dataset of likes of size at most n: every movie has the first genre,
\* users rate movies at the threshold; its size is the number of RATED
\* relationships
LikesDataset(n) ==
  /\ movies = [t \in Titles |-> DuneProfile]
  /\ hasGenre = [t \in Titles |-> <<1>>]
  /\ directedBy = {}
  /\ actedIn = {}
  /\ rated \in {r \in [Users \X Titles -> {NoRating, MinRating}] : RatedEdges(r) <= n}

\* a dataset of ratings of size at most n: every movie has the first genre or
\* none, users rate the movies below or at the threshold; its size is the
\* number of RATED relationships plus the number of movies without a genre
RatingsDataset(n) ==
  /\ movies = [t \in Titles |-> DuneProfile]
  /\ hasGenre \in {h \in [Titles -> {<<>>, <<1>>}] : NoGenre(h) <= n}
  /\ directedBy = {}
  /\ actedIn = {}
  /\ rated \in {r \in [Users \X Titles -> Ratings] :
                  NoGenre(hasGenre) + RatedEdges(r) <= n}

\* the dataset of the scenario of two similar users, of size at most n: users
\* 1 and 2 both rated the movies 1 and 2 at the threshold, every movie has
\* the first genre; its size is the number of further RATED relationships
SimilarUsersDataset(n) ==
  /\ movies = [t \in Titles |-> DuneProfile]
  /\ hasGenre = [t \in Titles |-> <<1>>]
  /\ directedBy = {}
  /\ actedIn = {}
  /\ rated \in {r \in [Users \X Titles -> Ratings] :
                  /\ \A u \in {1, 2}, t \in {1, 2} : r[<<u, t>>] = MinRating
                  /\ RatedEdges(r) <= 4 + n}

\* a dataset of genres of size at most n: the movies have genres in every
\* store order; its size is the number of HAS_GENRE relationships
GenresDataset(n) ==
  /\ movies = [t \in Titles |-> DuneProfile]
  /\ hasGenre \in {h \in [Titles -> GenreChains] : GenreEdges(h, Titles) <= n}
  /\ directedBy = {}
  /\ actedIn = {}
  /\ rated = NoRatings

\* a dataset of directors of size at most n: every movie has the first genre
\* or none, and directors; its size is the number of relationships
DirectorsDataset(n) ==
  /\ movies = [t \in Titles |-> DuneProfile]
  /\ hasGenre \in {h \in [Titles -> {<<>>, <<1>>}] : GenreEdges(h, Titles) <= n}
  /\ directedBy \in {d \in SUBSET DirectedBySlots :
                       GenreEdges(hasGenre, Titles) + Cardinality(d) <= n}
  /\ actedIn = {}
  /\ rated = NoRatings

\* a dataset of actors of size at most n: the same with actors
ActorsDataset(n) ==
  /\ movies = [t \in Titles |-> DuneProfile]
  /\ hasGenre \in {h \in [Titles -> {<<>>, <<1>>}] : GenreEdges(h, Titles) <= n}
  /\ directedBy = {}
  /\ actedIn \in {a \in SUBSET ActedInSlots :
                    GenreEdges(hasGenre, Titles) + Cardinality(a) <= n}
  /\ rated = NoRatings

\* a dataset of casts of size at most n: movies with directors and actors;
\* its size is the number of relationships
CastDataset(n) ==
  /\ movies = [t \in Titles |-> DuneProfile]
  /\ hasGenre = [t \in Titles |-> <<>>]
  /\ directedBy \in {d \in SUBSET DirectedBySlots : Cardinality(d) <= n}
  /\ actedIn \in {a \in SUBSET ActedInSlots : Cardinality(directedBy) + Cardinality(a) <= n}
  /\ rated = NoRatings

\* a dataset of profiles: movies of differing properties without relationships
ProfilesDataset ==
  /\ movies \in [Titles -> Profiles]
  /\ hasGenre = [t \in Titles |-> <<>>]
  /\ directedBy = {}
  /\ actedIn = {}
  /\ rated = NoRatings

\* a dataset of runtimes: movies of differing properties that all have the
\* first genre
RuntimesDataset ==
  /\ movies \in [Titles -> Profiles]
  /\ hasGenre = [t \in Titles |-> <<1>>]
  /\ directedBy = {}
  /\ actedIn = {}
  /\ rated = NoRatings

\* a dataset of attributes of size at most n: one movie of either profile
\* with genres, directors and actors among plain movies without
\* relationships; its size is the number of relationships
AttributeDataset(n) ==
  \E t \in Titles :
    /\ movies \in {f \in [Titles -> Profiles] :
                     \A o \in Titles \ {t} : f[o] = PlainProfile}
    /\ hasGenre \in {h \in [Titles -> GenreChains] :
                       /\ Len(h[t]) <= n
                       /\ \A o \in Titles \ {t} : h[o] = <<>>}
    /\ directedBy \in {d \in SUBSET {<<MovieNode(t), DirectorNode(x)>> : x \in Directors} :
                         Len(hasGenre[t]) + Cardinality(d) <= n}
    /\ actedIn \in {a \in SUBSET {<<ActorNode(x), MovieNode(t)>> : x \in Actors} :
                      Len(hasGenre[t]) + Cardinality(directedBy) + Cardinality(a) <= n}
    /\ rated = NoRatings

NoCall ==
  /\ call = [op |-> "none"]
  /\ ret = <<>>
  /\ thrown = "none"
  /\ queries = <<>>

NodeKeys ==
  {MovieNode(t) : t \in Titles} \cup {GenreNode(g) : g \in Genres}
    \cup {DirectorNode(d) : d \in Directors} \cup {ActorNode(a) : a \in Actors}

\* the datasets are loaded with the create functions, which MERGE: one node
\* for every title and every name
EveryNodeOnce == [k \in NodeKeys |-> 1]

\* the modules are loaded: db/index.js has created the driver and its last
\* statement, await driver.close(), has run; no session is open and the
\* command line program is not running
Loaded ==
  /\ NoCall
  /\ nodes = EveryNodeOnce
  /\ driver = "closed"
  /\ sessions = 0
  /\ cli = [pc |-> "none"]

\* the three strategies on small datasets of likes, genres and profiles
Init ==
  /\ \/ LikesDataset(MaxEdges - 2)
     \/ ProfilesDataset
  /\ Loaded

Next ==
  \/ recommendMoviesByUserSimilarity
  \/ recommendContentBased
  \/ recommendByAttributes

Spec == Init /\ [][Next]_vars

\* the collaborative strategy alone on datasets of ratings
InitCollab == RatingsDataset(MaxEdges - 2) /\ Loaded

NextCollab == recommendMoviesByUserSimilarity

SpecCollab == InitCollab /\ [][NextCollab]_vars

\* the collaborative strategy alone on the datasets of two similar users
InitSimilar == SimilarUsersDataset(MaxEdges - 3) /\ Loaded

NextSimilar == recommendMoviesByUserSimilarity

SpecSimilar == InitSimilar /\ [][NextSimilar]_vars

\* the content-based strategy alone on datasets of genres and of directors
InitContent ==
  /\ \/ GenresDataset(MaxEdges - 2)
     \/ DirectorsDataset(MaxEdges)
  /\ Loaded

NextContent == recommendContentBased

SpecContent == InitContent /\ [][NextContent]_vars

\* the content-based strategy on datasets of runtimes that updateMovie changes
InitRuntime == RuntimesDataset /\ Loaded

NextRuntime ==
  \/ \E title \in Titles, runtime \in Runtimes :
       updateMovieOf(title, [runtime |-> runtime])
  \/ recommendContentBased

SpecRuntime == InitRuntime /\ [][NextRuntime]_vars

\* createMovie, updateMovie and deleteMovie on a dataset of movies of the
\* same properties and genre, with at most one rating
InitMovies == LikesDataset(1) /\ Loaded

NextMovies ==
  \/ createMovie
  \/ updateMovie
  \/ deleteMovie

SpecMovies == InitMovies /\ [][NextMovies]_vars

\* the functions that create, rename, relate and delete genres, actors and
\* directors, on datasets with at most one relationship
InitNames == CastDataset(1) /\ Loaded

NextNames ==
  \/ createGenre
  \/ updateGenreName
  \/ deleteGenre
  \/ relateGenreToMovie
  \/ createActor
  \/ updateActorName
  \/ deleteActor
  \/ relateActorToMovie
  \/ createDirector
  \/ updateDirectorName
  \/ deleteDirector
  \/ relateDirectorToMovie

SpecNames == InitNames /\ [][NextNames]_vars

\* the command line program from the start of the process, on small datasets
InitCli ==
  /\ \/ LikesDataset(MaxEdges - 3)
     \/ ProfilesDataset
  /\ NoCall
  /\ nodes = EveryNodeOnce
  /\ driver = "open"
  /\ sessions = 0
  /\ cli = [pc |-> "start"]

NextCli ==
  \/ loadIndex
  \/ main
  \/ mainRejected
  \/ mainCancelled

SpecCli == InitCli /\ [][NextCli]_vars

\* findDirectorsForActor on datasets of casts
InitCast == CastDataset(MaxEdges) /\ Loaded

NextCast == findDirectorsForActor

SpecCast == InitCast /\ [][NextCast]_vars

\* the three strategies called one after the other, any number of times
InitSequence ==
  /\ \/ LikesDataset(MaxEdges - 3)
     \/ ProfilesDataset
  /\ Loaded

NextSequence ==
  \/ recommendMoviesByUserSimilarity
  \/ recommendContentBased
  \/ recommendByAttributes
  \/ returned

SpecSequence == InitSequence /\ [][NextSequence]_vars

\* the three strategies with the calls that go wrong, on small datasets
InitFailure ==
  /\ \/ LikesDataset(MaxEdges - 3)
     \/ ProfilesDataset
  /\ Loaded

NextFailure ==
  \/ recommendMoviesByUserSimilarity
  \/ recommendContentBased
  \/ recommendByAttributes
  \/ recommendMoviesByUserSimilarityRejected
  \/ recommendContentBasedRejected
  \/ recommendByAttributesRejected
  \/ recommendByAttributesMalformed

SpecFailure == InitFailure /\ [][NextFailure]_vars

\* the content-based strategy alone on datasets of genres large enough for
\* two seeds to share different genres with one movie
InitSeeds == GenresDataset(MaxEdges - 1) /\ Loaded

NextSeeds == recommendContentBased

SpecSeeds == InitSeeds /\ [][NextSeeds]_vars

\* the content-based strategy alone on datasets of actors
InitActors == ActorsDataset(MaxEdges - 1) /\ Loaded

NextActors == recommendContentBased

SpecActors == InitActors /\ [][NextActors]_vars

\* the attribute strategy alone on datasets of attributes
InitAttr == AttributeDataset(MaxEdges - 3) /\ Loaded

NextAttr == recommendByAttributes

SpecAttr == InitAttr /\ [][NextAttr]_vars

\* ------------------------------------------------------------- properties
Called == call.op # "none"

Collab == call.op = "recommendMoviesByUserSimilarity"

Content == call.op = "recommendContentBased"

Attr == call.op = "recommendByAttributes"

\* C1: each strategy called with amount >= 0 returns at most amount entries
C1_AtMostAmount == Called => Len(ret) <= call.amount

\* the collaborative strategy had more candidates than amount and returned amount
C1_Witness ==
  /\ Collab
  /\ call.amount >= 1
  /\ Cardinality(CollabRows(call.likedTitles)) > call.amount
  /\ Len(ret) = call.amount

\* the score by which the query ordered the i-th returned entry
RetScore(i) ==
  IF Collab THEN score(ret[i].title, call.likedTitles) ELSE ret[i].score

C3_TitleBreaksTies ==
  (Content \/ Attr) =>
    \A i, j \in DOMAIN ret :
      (i < j /\ ret[i].score = ret[j].score /\ ret[i].title # ret[j].title)
        => ret[i].title < ret[j].title

\* C4 (as claimed): in recommendMoviesByUserSimilarity, candidates of equal
\* score are ordered by voters descending, and those equal in score and
\* voters by title ascending
C4_VotersThenTitle ==
  Collab =>
    \A i, j \in DOMAIN ret :
      (i < j /\ score(ret[i].title, call.likedTitles) = score(ret[j].title, call.likedTitles))
        => \/ voters(ret[i].title, call.likedTitles) > voters(ret[j].title, call.likedTitles)
           \/ /\ voters(ret[i].title, call.likedTitles) = voters(ret[j].title, call.likedTitles)
              /\ ret[i].title < ret[j].title

\* C5: no movie whose title is in likedTitles is returned by
\* recommendMoviesByUserSimilarity
C5_NoLikedTitle ==
  Collab => \A i \in DOMAIN ret : ~In(ret[i].title, call.likedTitles)

\* something was returned although a liked movie with a genre is rated
\* highly by a similar user
C5_Witness ==
  /\ Collab
  /\ Len(ret) >= 1
  /\ \E m \in Range(call.likedTitles) :
       /\ hasGenre[m] # <<>>
       /\ Contributors(m, call.likedTitles) # {}

\* C6: no movie whose title is in seedTitles is returned by recommendContentBased
C6_NoSeedTitle ==
  Content => \A i \in DOMAIN ret : ~In(ret[i].title, call.titles)

\* something was returned although two seeds share a genre with each other
C6_Witness ==
  /\ Content
  /\ Len(ret) >= 1
  /\ \E m1, m2 \in Range(call.titles) :
       m1 # m2 /\ GenresOf(m1) \cap GenresOf(m2) # {}

\* the orders in which a list of titles can be passed
Reorderings(titles) ==
  {[i \in DOMAIN titles |-> titles[p[i]]] :
     p \in {q \in [DOMAIN titles -> DOMAIN titles] :
              \A i, j \in DOMAIN titles : i # j => q[i] # q[j]}}

\* C7: recommendContentBased assigns every candidate the same score for
\* every two lists of seed titles that are permutations of each other
C7_SeedOrderInvariant ==
  Content =>
    LET rows == ContentRows(call.titles)
    IN /\ \A p \in Reorderings(call.titles) : ContentRows(p) = rows
       /\ \A i \in DOMAIN ret :
            \E row \in rows :
              /\ row.rec = ret[i].title
              /\ row.genres = ret[i].genres
              /\ row.score = ret[i].score

\* a returned candidate got its score from two seeds of different contributions
C7_Witness ==
  /\ Content
  /\ \E i \in DOMAIN ret :
       LET seeds == GroupSeeds(ret[i].title, ret[i].genres, call.titles)
       IN /\ Len(seeds) = 2
          /\ RowScore(seeds[1], ret[i].title) # RowScore(seeds[2], ret[i].title)

\* the actors both movies have an ACTED_IN relationship from
SharedActors(m, rec) == ActorsOf(m) \cap ActorsOf(rec)

\* the score the specification gives a candidate: the sum over the seed
\* movies of the shared genres, directors and actors
ClaimedContentScore(rec, titles) ==
  Sum([m \in Titles |->
         Cardinality(GenresOf(m) \cap GenresOf(rec))
           + Cardinality(DirectorsOf(m) \cap DirectorsOf(rec))
           + Cardinality(SharedActors(m, rec))],
      Range(titles) \cap DOMAIN movies)

\* C8 (as claimed): recommendContentBased reports one score per candidate,
\* the sum over all seed movies of the genres, directors and actors the
\* seed shares with it
C8_OneSummedScore ==
  Content =>
    /\ \A i \in DOMAIN ret :
         ret[i].score = ClaimedContentScore(ret[i].title, call.titles)
    /\ \A i, j \in DOMAIN ret : i # j => ret[i].title # ret[j].title

\* the score of a returned row when shared actors are counted
RECURSIVE SumWithActors(_, _)
SumWithActors(seeds, rec) ==
  IF seeds = <<>> THEN 0
  ELSE commonGenres(Head(seeds), rec) + commonDirectors(Head(seeds), rec)
         + Cardinality(SharedActors(Head(seeds), rec))
         + SumWithActors(Tail(seeds), rec)

\* C9 (as claimed): in recommendContentBased commonActors(m, rec) is the
\* number of actors with an ACTED_IN relationship to both movies, and it
\* counts toward the score
C9_ActorsCount ==
  Content =>
    /\ \A m \in Range(SeedMovies(call.titles)), rec \in Titles :
         GenreMatch(m, rec, call.titles)
           => commonActors(m, rec) = Cardinality(SharedActors(m, rec))
    /\ \A i \in DOMAIN ret :
         ret[i].score =
           SumWithActors(GroupSeeds(ret[i].title, ret[i].genres, call.titles),
                         ret[i].title)

\* the score the specification gives a movie under the criteria c
ClaimedAttributeScore(rec, c) ==
  Cardinality(GenresOf(rec) \cap Range(c.genres))
    + Cardinality(DirectorsOf(rec) \cap Range(c.directors))
    + Cardinality(ActorsOf(rec) \cap Range(c.actors))
    + (IF c.runtime.min <= movies[rec].runtime /\ movies[rec].runtime <= c.runtime.max
       THEN 1 ELSE 0)
    + (IF c.languages # <<>> /\ movies[rec].original_language \in Range(c.languages)
       THEN 1 ELSE 0)
    + (IF c.releaseDecades # <<>>
          /\ movies[rec].year - (movies[rec].year % 10) \in Range(c.releaseDecades)
       THEN 1 ELSE 0)

\* the query of the Dune scenario: genre 1 stands for Sci-Fi, genre 2 for Adventure
DuneQuery ==
  [genres |-> <<1>>, directors |-> <<>>, actors |-> <<>>,
   runtime |-> [min |-> 120, max |-> 180],
   languages |-> <<"en">>, releaseDecades |-> <<2020>>]

IsDune(rec) == movies[rec] = DuneProfile /\ GenresOf(rec) = {1, 2}

\* C10: recommendByAttributes scores a movie by the matching genres,
\* directors and actors plus one each for runtime in range, language and
\* decade; Dune under the query of the scenario scores 4
C10_AttributeScore ==
  Attr =>
    \A i \in DOMAIN ret :
      /\ ret[i].score = ClaimedAttributeScore(ret[i].title, call.criteria)
      /\ (IsDune(ret[i].title) /\ call.criteria = DuneQuery) => ret[i].score = 4

\* Dune was returned under the query of the scenario
C10_Witness ==
  /\ Attr
  /\ call.criteria = DuneQuery
  /\ \E i \in DOMAIN ret : IsDune(ret[i].title) /\ ret[i].score = 4

\* the criteria of a call that passes no attribute: every list empty and the
\* runtime range left at its default
EmptyCriteria ==
  [genres |-> <<>>, directors |-> <<>>, actors |-> <<>>,
   runtime |-> [min |-> DefaultRuntimeMin, max |-> DefaultRuntimeMax],
   languages |-> <<>>, releaseDecades |-> <<>>]

\* C11: under the empty criteria with the default runtime range, every movie
\* of runtime at most 300 has score exactly 1, in the query and in the
\* returned entries
C11_DefaultScoresOne ==
  (Attr /\ call.criteria = EmptyCriteria) =>
    /\ \A rec \in DOMAIN movies :
         movies[rec].runtime <= DefaultRuntimeMax
           => attrTotalScore(rec, call.criteria) = 1
    /\ \A i \in DOMAIN ret :
         ret[i].runtime <= DefaultRuntimeMax => ret[i].score = 1

\* a movie with genres, a director or an actor was returned with score 1
\* under the empty criteria
C11_Witness ==
  /\ Attr
  /\ call.criteria = EmptyCriteria
  /\ \E i \in DOMAIN ret :
       /\ ret[i].genres # <<>>
       /\ ret[i].runtime <= DefaultRuntimeMax
       /\ ret[i].score = 1

\* the lists the latest call can return when it is made again
ReturnsAgain ==
  IF Collab THEN CollabReturns(call.likedTitles, call.amount)
  ELSE IF Content THEN ContentReturns(call.titles, call.amount)
  ELSE AttributeReturns(call.criteria, call.amount)

\* C12 (as claimed): a strategy called again with the same inputs on the
\* unchanged graph returns the same entries in the same order, also when
\* candidates tie on score
C12_SameOutputAgain ==
  Called => \A again \in ReturnsAgain : again = ret

\* the number of liked titles the user rated at or above the threshold
LikedByUser(u, likedTitles) ==
  Cardinality({t \in Range(likedTitles) : rated[<<u, t>>] >= MinRating})

\* the qualifying users who rated the candidate at or above the threshold
VotersFor(rec, likedTitles) ==
  {u \in Users : LikedByUser(u, likedTitles) > 0 /\ rated[<<u, rec>>] >= MinRating}

ClaimedCollabScore(rec, likedTitles) ==
  Sum([u \in Users |-> LikedByUser(u, likedTitles)], VotersFor(rec, likedTitles))

\* C13: in recommendMoviesByUserSimilarity a user's overlap is the number of
\* liked titles the user rated >= 4, and a candidate's score is the sum of
\* the overlaps of the qualifying users who rated it >= 4, with voters their
\* number
C13_OverlapScoreVoters ==
  Collab =>
    /\ \A u \in Users :
         overlap(u, call.likedTitles) = LikedByUser(u, call.likedTitles)
    /\ \A rec \in CollabCandidates(call.likedTitles) :
         /\ score(rec, call.likedTitles) = ClaimedCollabScore(rec, call.likedTitles)
         /\ voters(rec, call.likedTitles)
              = Cardinality(VotersFor(rec, call.likedTitles))

\* a candidate was returned whose one voter liked two of the liked titles
C13_Witness ==
  /\ Collab
  /\ \E i \in DOMAIN ret :
       /\ score(ret[i].title, call.likedTitles) = 2
       /\ voters(ret[i].title, call.likedTitles) = 1

\* the scenario: Inception is title 1, Arrival title 2 and Interstellar title
\* 3; the users A and B are 1 and 2, the only users similar to the caller,
\* and both rated Interstellar at or above the threshold
InterstellarScenario ==
  /\ Collab
  /\ Range(call.likedTitles) = {1, 2}
  /\ SimilarUsers(call.likedTitles) = {1, 2}
  /\ rated[<<1, 3>>] >= MinRating
  /\ rated[<<2, 3>>] >= MinRating

\* rated at or above the threshold by exactly one of A and B
OnlyOneRated(t) == (rated[<<1, t>>] >= MinRating) # (rated[<<2, t>>] >= MinRating)

\* Interstellar comes before every returned movie only one of A and B rated highly
InterstellarAhead ==
  \A i, j \in DOMAIN ret :
    (ret[i].title = 3 /\ OnlyOneRated(ret[j].title)) => i < j

C15_RuntimeFilters ==
  Content =>
    \A i \in DOMAIN ret :
      \E m \in Range(SeedMovies(call.titles)) : RuntimeClose(m, ret[i].title)

\* the graphs differ in the runtime of their movies and in nothing else
OnlyRuntimesDiffer ==
  /\ movies' # movies
  /\ hasGenre' = hasGenre
  /\ directedBy' = directedBy
  /\ actedIn' = actedIn
  /\ DOMAIN movies' = DOMAIN movies
  /\ \A t \in DOMAIN movies :
       /\ movies'[t].year = movies[t].year
       /\ movies'[t].original_language = movies[t].original_language

\* C16: runtime never contributes to the score of recommendContentBased: in
\* two graphs that differ only in runtimes every list of seeds gives the
\* same candidates the same scores
C16_RuntimeNotScored ==
  [][OnlyRuntimesDiffer =>
       \A titles \in SeqsUpTo(Titles, MaxTitles) :
         ContentRows(titles)' = ContentRows(titles)]_vars

\* a candidate whose runtime was changed to differ from a seed's by 10 or
\* more was returned with the score of the genre it shares with that seed
C16_Witness ==
  /\ Content
  /\ \E i \in DOMAIN ret :
       /\ movies[ret[i].title] \notin Profiles
       /\ ret[i].score >= 1
       /\ \E m \in Range(SeedMovies(call.titles)) : ~RuntimeClose(m, ret[i].title)

\* C17 (as claimed): a call of a strategy with amount <= 0 completes without
\* an error and returns the empty list
C17_NoAmountNoError ==
  (Called /\ call.amount <= 0) => (thrown = "none" /\ ret = <<>>)

\* the candidate pools as claimed: the movies outside likedTitles that a
\* qualifying user rated >= 4; the movies outside the seeds that share a genre,
\* a director or an actor with a seed; every movie
ClaimedCollabPool(likedTitles) == CollabCandidates(likedTitles)

ClaimedContentPool(titles) ==
  {rec \in Titles :
     /\ ~In(rec, titles)
     /\ \E m \in Range(titles) :
          commonGenres(rec, m) + commonDirectors(rec, m) + commonActors(rec, m) > 0}

ClaimedPool ==
  CASE Collab -> ClaimedCollabPool(call.likedTitles)
    [] Content -> ClaimedContentPool(call.titles)
    [] Attr -> Titles
    [] OTHER -> {}

\* C18 (as claimed): a call whose amount is at least the size of the candidate
\* pool returns every candidate of the pool exactly once and nothing else
C18_WholePool ==
  (Called /\ thrown = "none" /\ call.amount >= Cardinality(ClaimedPool)) =>
    /\ Len(ret) = Cardinality(ClaimedPool)
    /\ {ret[i].title : i \in 1..Len(ret)} = ClaimedPool

\* the call of recommendByAttributes has malformed input
MalformedInput ==
  \/ call.amount < 0
  \/ call.criteria.runtime.min > call.criteria.runtime.max

\* C19 (as claimed): recommendByAttributes called with a negative amount or
\* with a runtime range of min > max ends in an InvalidInput error and
\* returns no list
C19_InvalidInputReported ==
  (Attr /\ MalformedInput) => (thrown = "InvalidInput" /\ ret = <<>>)

\* the store failed to answer a query of a call with a well-formed amount
StoreFailed == Called /\ call.amount >= 0 /\ "rejected" \in Range(queries)

\* C20 (as claimed): when the store fails to answer the query of a strategy,
\* the caller gets the store's error and the query was issued exactly once
C20_StoreErrorOnce ==
  StoreFailed => (thrown = "Neo4jError" /\ ret = <<>> /\ Len(queries) = 1)

\* C28 (as claimed): no title occurs twice in the list a strategy returns
C28_NoTitleTwice ==
  Called => \A i, j \in 1..Len(ret) : ret[i].title = ret[j].title => i = j

\* C21: the three strategies are read-only: no step of a sequence of calls
\* changes the nodes, the relationships or the properties of the graph
C21_ReadOnly == [][graph' = graph]_vars

\* a strategy has returned movies in a sequence of calls
C21_Witness == Called /\ thrown = "none" /\ Len(ret) >= 2

\* C27 (as claimed): after an operation has returned or thrown, no session
\* it opened is still open
C27_NoSessionLeftOpen == Called => sessions = 0

\* the directors of the movies the actor acted in (DIRECTED_BY from Movie to
\* Director, ACTED_IN from Actor to Movie)
DirectorsWorkedWith(actorName) ==
  {d \in Directors :
     \E m \in Titles : /\ <<ActorNode(actorName), MovieNode(m)>> \in actedIn
                       /\ <<MovieNode(m), DirectorNode(d)>> \in directedBy}

\* C25 (as claimed): when the store answers, findDirectorsForActor returns
\* the names of the directors of the actor's movies, each once
C25_DirectorsOfActor ==
  (call.op = "findDirectorsForActor" /\ queries = <<"answered">>) =>
    /\ thrown = "none"
    /\ Range(ret) = DirectorsWorkedWith(call.actorName)
    /\ Len(ret) = Cardinality(DirectorsWorkedWith(call.actorName))

\* at most one Movie node per title
OneMoviePerTitle == \A t \in Titles : nodes[MovieNode(t)] <= 1

\* createMovie on a title that has a node keeps the nodes as they are and
\* gives that node the properties passed; on a node that has them already it
\* changes nothing
CreateUpdatesOrKeeps ==
  \A title \in Titles, profile \in Profiles :
    (createMovieOf(title, profile) /\ nodes[MovieNode(title)] >= 1) =>
      /\ nodes' = nodes
      /\ movies'[title] = profile
      /\ \A o \in Titles \ {title} : movies'[o] = movies[o]
      /\ movies[title] = profile => graph' = graph

\* C23: after any sequence of createMovie, updateMovie and deleteMovie there
\* is at most one Movie node per title; createMovie on an existing title
\* updates the node in place, and repeating a createMovie call changes nothing
C23_OneMoviePerTitle == []OneMoviePerTitle /\ [][CreateUpdatesOrKeeps]_vars

\* createMovie has replaced every property of a movie that was never deleted
\* (it still has its genre; updateMovie changes no year) and whose title has
\* one node
C23_Witness ==
  \E t \in Titles :
    /\ nodes[MovieNode(t)] = 1
    /\ hasGenre[t] = <<1>>
    /\ movies[t] = PlainProfile

\* C29 (as claimed): updateMovie(title, updates) sets the keys of updates on
\* the movie of the title argument and leaves every other movie as it was,
\* also when title is one of the keys
C29_UpdatesOnlyTitled ==
  [][\A title \in Titles, updates \in Updates :
       updateMovieOf(title, updates) =>
         /\ \A o \in Titles \ {title} : movies'[o] = movies[o]
         /\ nodes[MovieNode(title)] > 0 =>
              \A key \in DOMAIN movies[title] :
                movies'[title][key] = IF key \in DOMAIN updates THEN updates[key]
                                      ELSE movies[title][key]]_vars

\* C22 (as claimed): no two Genre nodes, no two Actor nodes and no two
\* Director nodes share a name
C22_NamesUnique ==
  /\ \A g \in Genres : nodes[GenreNode(g)] <= 1
  /\ \A a \in Actors : nodes[ActorNode(a)] <= 1
  /\ \A d \in Directors : nodes[DirectorNode(d)] <= 1

\* main() has called a strategy
Recommended == cli.pc \in {"done", "failed"}

\* C24 (as claimed): after the warning that preference-based recommendations
\* are used instead, the strategy called is recommendByAttributes, with the
\* criteria of the preferences collected
C24_WarnedUsesPreferences ==
  (Recommended /\ cli.warned) =>
    /\ Attr
    /\ call.criteria.genres = cli.preferences.genres
    /\ call.criteria.runtime = cli.preferences.runtime

\* C26 (as claimed): the driver is open whenever a query is issued
C26_DriverOpenAtQuery ==
  [][(queries' # queries /\ queries' # <<>>) => driver = "open"]_vars

\* the decade an era choice of the prompt names
EraDecade(era) == IF era = "2020" THEN 2020 ELSE 1990

\* C30 (as claimed): the languages and eras selected reach recommendByAttributes,
\* and a movie of a selected language or decade scores 1 for it
C30_LanguagesAndErasScored ==
  (cli.pc = "done" /\ Attr) =>
    /\ cli.preferences.languages # <<>> =>
         /\ call.criteria.languages # <<>>
         /\ \A t \in Titles :
              In(movies[t].original_language, cli.preferences.languages) =>
                languageScore(t, call.criteria.languages) = 1
    /\ cli.preferences.era # <<>> =>
         /\ call.criteria.releaseDecades # <<>>
         /\ \A t \in Titles :
              (\E i \in 1..Len(cli.preferences.era) :
                 EraDecade(cli.preferences.era[i]) = (movies[t].year \div 10) * 10) =>
                decadeScore(t, call.criteria.releaseDecades) = 1

====
